---- MODULE Spec2Model ----
(***************************************************************************)
(* claude-history-cleaner (src/main.rs): transcript parsing, the scan of   *)
(* the projects directory, the deletion cascade, the interactive selector  *)
(* and the non-interactive bulk modes, as one state machine.               *)
(*                                                                         *)
(* Conventions.  A string the code inspects character by character is a    *)
(* tuple of one-character strings.  Option<T> is a tuple of length 0       *)
(* (None) or 1 (Some(x) = <<x>>).  A transcript is the sequence of its     *)
(* lines; a line is the outcome of serde_json::from_str::<JsonlEntry>.     *)
(***************************************************************************)
EXTENDS Integers, Sequences, FiniteSets, TLC

VARIABLES
    files,          \* paths <<workspace, stem>> of the .jsonl files on disk
    dirs,           \* paths <<workspace, name>> of the sidecar directories on disk
    content,        \* path -> sequence of lines (the file's content)
    recent,         \* files modified less than 300 s ago
    args,           \* the command line (Args)
    pc,             \* where the program is
    conversations,  \* the list a loop or the selector works on
    cursor,         \* run_selection: cursor
    selected,       \* run_selection: selected
    viewport_start, \* run_selection: viewport_start
    viewport_size,  \* run_selection: viewport_size of the frame on screen
    indices,        \* the records of the running batch (indices of conversations)
    pos,            \* position of the running batch in indices
    deleted,        \* deleted / total_deleted of the running batch
    errors,         \* errors of the running batch
    key,            \* the key read_key returned last, or the answer of the last prompt
    call,           \* history: the last call of delete_conversation_with_agents
    calls,          \* history: the calls of the running batch, [i: position, ok: result,
                    \* quiet: no filesystem call of it failed for an outside reason]
    base            \* history: the filesystem when the current phase began

vars == <<files, dirs, content, recent, args, pc, conversations, cursor, selected,
          viewport_start, viewport_size, indices, pos, deleted, errors, key, call, calls,
          base>>

-----------------------------------------------------------------------------
(* Option<T> *)

None == <<>>

Some(x) == <<x>>

IsSome(o) == Len(o) = 1

-----------------------------------------------------------------------------
(* Strings as tuples of characters *)

StartsWith(s, p) == Len(s) >= Len(p) /\ SubSeq(s, 1, Len(p)) = p

Take(s, n) == SubSeq(s, 1, IF Len(s) < n THEN Len(s) ELSE n)

Whitespace == {" ", "\t", "\n", "\r"}

\* str::lines().next().unwrap_or("")
FirstLine(s) ==
    LET nl == {i \in 1..Len(s) : s[i] = "\n"}
        end == IF nl = {} THEN Len(s) ELSE (CHOOSE i \in nl : \A j \in nl : i <= j) - 1
        cut == IF end >= 1 /\ nl # {} /\ s[end] = "\r" THEN end - 1 ELSE end
    IN SubSeq(s, 1, cut)

\* str::trim()
Trim(s) ==
    LET keep == {i \in 1..Len(s) : s[i] \notin Whitespace}
    IN IF keep = {} THEN <<>>
       ELSE SubSeq(s, CHOOSE i \in keep : \A j \in keep : i <= j,
                      CHOOSE i \in keep : \A j \in keep : i >= j)

\* str::replace('\t', " ")
ReplaceTab(s) == [i \in 1..Len(s) |-> IF s[i] = "\t" THEN " " ELSE s[i]]

WARMUP == <<"W", "a", "r", "m", "u", "p">>

IDE_PREFIX == <<"<", "i", "d", "e", "_">>

AGENT_PREFIX == <<"a", "g", "e", "n", "t", "-">>

ELLIPSIS == <<".", ".", ".">>

WARMUP_LABEL == <<"[">> \o WARMUP \o <<"]">>

NO_TITLE_LABEL == <<"[", "N", "o", " ", "t", "i", "t", "l", "e", "]">>

TitleMax == 50

-----------------------------------------------------------------------------
(* Transcript Parser *)

\* serde_json::Value of message.content
StrVal(s) == [kind |-> "string", s |-> s, items |-> <<>>]

ArrVal(items) == [kind |-> "array", s |-> <<>>, items |-> items]

OtherVal == [kind |-> "other", s |-> <<>>, items |-> <<>>]

\* one element of a content array
Segment(type, text) == [obj |-> TRUE, type |-> type, text |-> text]

\* a line that does not parse as a JsonlEntry
Malformed ==
    [json |-> FALSE, type |-> None, message |-> None, timestamp |-> None, sessionId |-> None]

\* a line that parses as a JsonlEntry
Entry(type, message, timestamp, sessionId) ==
    [json |-> TRUE, type |-> type, message |-> message,
     timestamp |-> timestamp, sessionId |-> sessionId]

Msg(value) == Some([content |-> Some(value)])

\* a timestamp string and what ts.parse::<DateTime<Utc>>() makes of it
Stamp(t) == Some([valid |-> TRUE, t |-> t])

BadStamp == Some([valid |-> FALSE, t |-> 0])

extract_text_from_content(value) ==
    LET hits == {i \in 1..Len(value.items) :
                    /\ value.items[i].obj
                    /\ value.items[i].type = Some("text")
                    /\ IsSome(value.items[i].text)
                    /\ ~StartsWith(value.items[i].text[1], IDE_PREFIX)}
        raw == IF value.kind = "string" THEN value.s
               ELSE IF value.kind = "array" /\ hits # {}
                    THEN value.items[CHOOSE i \in hits : \A j \in hits : i <= j].text[1]
                    ELSE <<>>
    IN ReplaceTab(Trim(FirstLine(raw)))

\* the condition of extract_title's innermost if, for one line
TitleCandidate(line) ==
    /\ line.json
    /\ line.type = Some("user")
    /\ IsSome(line.message)
    /\ IsSome(line.message[1].content)
    /\ LET text == extract_text_from_content(line.message[1].content[1])
       IN text # <<>> /\ text # WARMUP /\ ~StartsWith(text, IDE_PREFIX)

\* a title taken from the last qualifying line
extract_title_Last(lines) ==
    LET hits == {i \in 1..Len(lines) : TitleCandidate(lines[i])}
    IN IF hits = {} THEN None
       ELSE LET last == CHOOSE i \in hits : \A j \in hits : i >= j
                text == extract_text_from_content(lines[last].message[1].content[1])
                title == Take(text, TitleMax)
            IN Some(IF Len(text) > TitleMax THEN title \o ELLIPSIS ELSE title)

extract_title(lines) ==
    LET hits == {i \in 1..Len(lines) : TitleCandidate(lines[i])}
    IN IF hits = {} THEN None
       ELSE LET first == CHOOSE i \in hits : \A j \in hits : i <= j
                text == extract_text_from_content(lines[first].message[1].content[1])
                title == Take(text, TitleMax)
            IN Some(IF Len(text) > TitleMax THEN title \o ELLIPSIS ELSE title)

\* a timestamp taken from the first line that has one
extract_timestamp_First(lines) ==
    LET hits == {i \in 1..Len(lines) :
                    /\ lines[i].json
                    /\ IsSome(lines[i].timestamp)
                    /\ lines[i].timestamp[1].valid}
    IN IF hits = {} THEN None
       ELSE Some(lines[CHOOSE i \in hits : \A j \in hits : i <= j].timestamp[1].t)

extract_timestamp(lines) ==
    LET hits == {i \in 1..Len(lines) :
                    /\ lines[i].json
                    /\ IsSome(lines[i].timestamp)
                    /\ lines[i].timestamp[1].valid}
    IN IF hits = {} THEN None
       ELSE Some(lines[CHOOSE i \in hits : \A j \in hits : i >= j].timestamp[1].t)

\* a condition that does not look for the IDE tag
RealUserText_NoIdeTest(line) ==
    /\ line.json
    /\ line.type = Some("user")
    /\ IsSome(line.message)
    /\ IsSome(line.message[1].content)
    /\ LET text == extract_text_from_content(line.message[1].content[1])
       IN text # <<>> /\ text # WARMUP

\* the condition of is_warmup_only's innermost if, for one line
RealUserText(line) ==
    /\ line.json
    /\ line.type = Some("user")
    /\ IsSome(line.message)
    /\ IsSome(line.message[1].content)
    /\ LET text == extract_text_from_content(line.message[1].content[1])
       IN text # <<>> /\ text # WARMUP /\ ~StartsWith(text, IDE_PREFIX)

is_warmup_only(lines) == \A i \in 1..Len(lines) : ~RealUserText(lines[i])

-----------------------------------------------------------------------------
(* The projects directory *)

WS1 == <<"-", "p">>

WS2 == <<"-", "q">>

SESS1 == <<"s", "1">>

SESS2 == <<"s", "2">>

AGENT_A == AGENT_PREFIX \o <<"a">>

AGENT_B == AGENT_PREFIX \o <<"b">>

EXT == <<".", "j", "s", "o", "n", "l">>

\* the characters of the names above, in ascending byte order
ByteOrder ==
    <<"-", ".", "1", "2", "a", "b", "e", "g", "j", "l", "n", "o", "p", "q", "s", "t">>

Byte(c) == CHOOSE i \in 1..Len(ByteOrder) : ByteOrder[i] = c

\* Ord::cmp on strings: -1 Less, 0 Equal, 1 Greater
StrCmp(a, b) ==
    LET diff == {i \in 1..Len(a) : i > Len(b) \/ a[i] # b[i]}
    IN IF diff = {} THEN (IF Len(a) = Len(b) THEN 0 ELSE -1)
       ELSE LET i == CHOOSE k \in diff : \A j \in diff : k <= j
            IN IF i > Len(b) THEN 1
               ELSE IF Byte(a[i]) < Byte(b[i]) THEN -1 ELSE 1

\* Ord::cmp on the paths projects_dir/<workspace>/<stem>.jsonl
PathCmp(p, q) ==
    IF StrCmp(p[1], q[1]) # 0 THEN StrCmp(p[1], q[1])
    ELSE StrCmp(p[2] \o EXT, q[2] \o EXT)

\* a file's content: its lines, or bytes that are not UTF-8
Text(lines) == [utf8 |-> TRUE, lines |-> lines]

Garbled == [utf8 |-> FALSE, lines |-> <<Malformed>>]

\* fs::metadata(path).len()
Size(file) == IF file.utf8 THEN Len(file.lines) ELSE 1

\* fs::read_to_string(path)
read_to_string(file) == IF file.utf8 THEN Some(file.lines) ELSE None

is_agent_name(stem) == StartsWith(stem, AGENT_PREFIX)

-----------------------------------------------------------------------------
(* Workspace Decoder *)

\* str::replace('-', "/")
ReplaceDash(s) == [i \in 1..Len(s) |-> IF s[i] = "-" THEN "/" ELSE s[i]]

\* str::replacen('-', "/", 1)
ReplaceFirstDash(s) ==
    LET at == {i \in 1..Len(s) : s[i] = "-"}
    IN [i \in 1..Len(s) |->
          IF at # {} /\ i = (CHOOSE k \in at : \A j \in at : k <= j) THEN "/" ELSE s[i]]

decode_workspace_name(name) ==
    IF StartsWith(name, <<"-">>) THEN ReplaceDash(ReplaceFirstDash(name))
    ELSE ReplaceDash(name)

\* str::contains
Contains(s, sub) ==
    \E i \in 0..(Len(s) - Len(sub)) : SubSeq(s, i + 1, i + Len(sub)) = sub

-----------------------------------------------------------------------------
(* Conversation Scanner *)

\* the workspace test of scan_conversations
WorkspaceIncluded(ws, filter) ==
    \/ filter = None
    \/ Contains(decode_workspace_name(ws), filter[1])
    \/ Contains(ws, filter[1])

\* a record whose warmup classification is taken for empty files too
ScanRecord_WarmupUnguarded(f, fsContent, fsDirs, fsRecent) ==
    LET file == fsContent[f]
        is_empty == Size(file) = 0
        lines == IF IsSome(read_to_string(file)) THEN read_to_string(file)[1] ELSE <<>>
    IN [path |-> f,
        session_id |-> f[2],
        workspace_folder |-> f[1],
        workspace_path |-> decode_workspace_name(f[1]),
        is_empty |-> is_empty,
        is_active |-> f \in fsRecent,
        title |-> IF is_agent_name(f[2]) /\ is_warmup_only(lines) THEN Some(WARMUP_LABEL)
                  ELSE IF is_empty THEN None ELSE extract_title(lines),
        timestamp |-> IF is_empty THEN None ELSE extract_timestamp(lines),
        folder_path |-> IF f \in fsDirs THEN Some(f) ELSE None]

\* the record scan_conversations pushes for one file
ScanRecord(f, fsContent, fsDirs, fsRecent) ==
    LET file == fsContent[f]
        is_agent == is_agent_name(f[2])
        is_empty == Size(file) = 0
        lines == IF IsSome(read_to_string(file)) THEN read_to_string(file)[1] ELSE <<>>
        title == IF ~is_empty THEN extract_title(lines) ELSE None
        timestamp == IF ~is_empty THEN extract_timestamp(lines) ELSE None
        is_warmup == IF ~is_empty THEN is_warmup_only(lines) ELSE FALSE
    IN [path |-> f,
        session_id |-> f[2],
        workspace_folder |-> f[1],
        workspace_path |-> decode_workspace_name(f[1]),
        is_empty |-> is_empty,
        is_active |-> f \in fsRecent,
        title |-> IF is_agent /\ is_warmup THEN Some(WARMUP_LABEL) ELSE title,
        timestamp |-> timestamp,
        folder_path |-> IF f \in fsDirs THEN Some(f) ELSE None]

\* a scan that keeps the agent files whatever include_agents is
Scanned_AgentsAlways(fsFiles, filter, include_agents) ==
    {f \in fsFiles : WorkspaceIncluded(f[1], filter)}

\* the files scan_conversations makes a record of
Scanned(fsFiles, filter, include_agents) ==
    {f \in fsFiles : /\ WorkspaceIncluded(f[1], filter)
                     /\ ~(is_agent_name(f[2]) /\ ~include_agents)}

\* a priority that puts every record in one tier
priority_OneTier(c) == 0

priority(c) ==
    IF c.is_empty THEN 2
    ELSE IF c.title = None \/ c.title = Some(NO_TITLE_LABEL) THEN 1
    ELSE 0

\* the comparator of conversations.sort_by: -1 Less, 0 Equal, 1 Greater
Compare(a, b) ==
    IF priority(a) # priority(b) THEN (IF priority(a) < priority(b) THEN -1 ELSE 1)
    ELSE IF IsSome(b.timestamp) /\ IsSome(a.timestamp)
         THEN (IF b.timestamp[1] < a.timestamp[1] THEN -1
               ELSE IF b.timestamp[1] > a.timestamp[1] THEN 1 ELSE 0)
    ELSE IF IsSome(b.timestamp) /\ ~IsSome(a.timestamp) THEN -1
    ELSE IF ~IsSome(b.timestamp) /\ IsSome(a.timestamp) THEN 1
    ELSE PathCmp(a.path, b.path)

\* the orders fs::read_dir can enumerate a set in
Enumerations(S) ==
    {e \in [1..Cardinality(S) -> S] : \A i, j \in 1..Cardinality(S) : e[i] = e[j] => i = j}

RECURSIVE StableSort(_)

\* slice::sort_by is stable: each element of the enumeration, in turn, goes behind the
\* elements already placed that the comparator does not put after it
StableSort(e) ==
    IF e = <<>> THEN <<>>
    ELSE LET s == StableSort(SubSeq(e, 1, Len(e) - 1))
             x == e[Len(e)]
             k == Cardinality({i \in 1..Len(s) : Compare(s[i], x) <= 0})
         IN SubSeq(s, 1, k) \o <<x>> \o SubSeq(s, k + 1, Len(s))

\* the lists scan_conversations can return, one per enumeration order
scan_conversations(fsFiles, fsContent, fsDirs, fsRecent, filter, include_agents) ==
    {StableSort([i \in 1..Len(e) |-> ScanRecord(e[i], fsContent, fsDirs, fsRecent)]) :
        e \in Enumerations(Scanned(fsFiles, filter, include_agents))}

-----------------------------------------------------------------------------
(* Deletion Cascade *)

\* what can go wrong, for a reason outside the program, with one agent sibling:
\* nothing, its directory entry, reading it, removing it, removing its folder
SibOutcome == {"ok", "entry", "read", "remove", "rmdir"}

\* a loop that skips no name of the workspace folder
AgentFiles_AnyFile(fsFiles, ws) == {f \in fsFiles : f[1] = ws}

\* the agent-prefixed .jsonl files of a workspace folder
AgentFiles(fsFiles, ws) == {f \in fsFiles : f[1] = ws /\ is_agent_name(f[2])}

Ok(n, fsFiles, fsDirs) ==
    [ok |-> TRUE, n |-> n, failed |-> "", files |-> fsFiles, dirs |-> fsDirs]

Err(step, fsFiles, fsDirs) ==
    [ok |-> FALSE, n |-> 0, failed |-> step, files |-> fsFiles, dirs |-> fsDirs]

\* a test that looks for the session id on every line of the sibling
Belongs_AnyLine(f, conv, fsContent, io) ==
    /\ io.sib[f] \notin {"entry", "read"}
    /\ IsSome(read_to_string(fsContent[f]))
    /\ \E k \in 1..Len(read_to_string(fsContent[f])[1]) :
          /\ read_to_string(fsContent[f])[1][k].json
          /\ read_to_string(fsContent[f])[1][k].sessionId = Some(conv.session_id)

\* the test of one sibling: read it, take its first line, parse it, compare the session id
Belongs(f, conv, fsContent, io) ==
    /\ io.sib[f] \notin {"entry", "read"}
    /\ IsSome(read_to_string(fsContent[f]))
    /\ LET lines == read_to_string(fsContent[f])[1]
       IN /\ Len(lines) > 0
          /\ lines[1].json
          /\ lines[1].sessionId = Some(conv.session_id)

\* the siblings the loop removes, and the agent folders it removes with them
RemovedAgents(conv, fsFiles, fsContent, io) ==
    {f \in AgentFiles(fsFiles, conv.workspace_folder) :
        Belongs(f, conv, fsContent, io) /\ io.sib[f] # "remove"}

RemovedAgentFolders(conv, fsFiles, fsDirs, fsContent, io) ==
    {f \in RemovedAgents(conv, fsFiles, fsContent, io) : f \in fsDirs /\ io.sib[f] # "rmdir"}

\* a third step that leaves the removed agents out of the count
CascadeAgents_OnePerCall(conv, fsFiles, fsDirs, fsContent, io) ==
    IF is_agent_name(conv.session_id) THEN Ok(1, fsFiles, fsDirs)
    ELSE IF io.read_dir THEN Err("read_dir", fsFiles, fsDirs)
    ELSE Ok(1,
            fsFiles \ RemovedAgents(conv, fsFiles, fsContent, io),
            fsDirs \ RemovedAgentFolders(conv, fsFiles, fsDirs, fsContent, io))

\* a third step that counts every referencing agent, removed or not
CascadeAgents_CountsMatches(conv, fsFiles, fsDirs, fsContent, io) ==
    IF is_agent_name(conv.session_id) THEN Ok(1, fsFiles, fsDirs)
    ELSE IF io.read_dir THEN Err("read_dir", fsFiles, fsDirs)
    ELSE Ok(1 + Cardinality({f \in AgentFiles(fsFiles, conv.workspace_folder) :
                                Belongs(f, conv, fsContent, io)}),
            fsFiles \ RemovedAgents(conv, fsFiles, fsContent, io),
            fsDirs \ RemovedAgentFolders(conv, fsFiles, fsDirs, fsContent, io))

\* the third step: the agent files that reference this session
CascadeAgents(conv, fsFiles, fsDirs, fsContent, io) ==
    IF is_agent_name(conv.session_id) THEN Ok(1, fsFiles, fsDirs)
    ELSE IF io.read_dir THEN Err("read_dir", fsFiles, fsDirs)
    ELSE Ok(1 + Cardinality(RemovedAgents(conv, fsFiles, fsContent, io)),
            fsFiles \ RemovedAgents(conv, fsFiles, fsContent, io),
            fsDirs \ RemovedAgentFolders(conv, fsFiles, fsDirs, fsContent, io))

\* the second step: the associated folder
CascadeFolder(conv, fsFiles, fsDirs, fsContent, io) ==
    IF IsSome(conv.folder_path) /\ conv.folder_path[1] \in fsDirs
    THEN IF io.folder THEN Err("folder", fsFiles, fsDirs)
         ELSE CascadeAgents(conv, fsFiles, fsDirs \ {conv.folder_path[1]}, fsContent, io)
    ELSE CascadeAgents(conv, fsFiles, fsDirs, fsContent, io)

\* a call that goes on to the folder and the siblings when the main file stays
delete_conversation_with_agents_IgnoresMain(conv, fsFiles, fsDirs, fsContent, io) ==
    CascadeFolder(conv, fsFiles \ {conv.path}, fsDirs, fsContent, io)

\* the result of the call and the filesystem it leaves
delete_conversation_with_agents(conv, fsFiles, fsDirs, fsContent, io) ==
    IF conv.path \notin fsFiles \/ io.main THEN Err("file", fsFiles, fsDirs)
    ELSE CascadeFolder(conv, fsFiles \ {conv.path}, fsDirs, fsContent, io)

\* no call fails for an outside reason
NoFailure(agents) ==
    [main |-> FALSE, folder |-> FALSE, read_dir |-> FALSE, sib |-> [f \in agents |-> "ok"]]

\* the outcomes of the filesystem calls of one cascade: which of the calls it makes
\* fail for an outside reason.  The first two steps and read_dir end the call when
\* they fail, so at most one of them does, and then no sibling is looked at; only a
\* sibling the loop removes can fail to be removed, or have its folder fail to be.
IOs(conv, fsFiles, fsDirs, fsContent) ==
    LET agents == AgentFiles(fsFiles, conv.workspace_folder)
        none == NoFailure(agents)
        present == conv.path \in fsFiles
        folder == present /\ IsSome(conv.folder_path) /\ conv.folder_path[1] \in fsDirs
        loop == present /\ ~is_agent_name(conv.session_id)
        touched == {f \in agents : Belongs(f, conv, fsContent, none)}
    IN (IF loop
        THEN {[none EXCEPT !.sib = g] :
                 g \in {h \in [agents -> SibOutcome] :
                          \A f \in agents :
                             /\ h[f] \in {"remove", "rmdir"} => f \in touched
                             /\ h[f] = "rmdir" => f \in fsDirs}}
        ELSE {none})
       \cup (IF present THEN {[none EXCEPT !.main = TRUE]} ELSE {})
       \cup (IF folder THEN {[none EXCEPT !.folder = TRUE]} ELSE {})
       \cup (IF loop THEN {[none EXCEPT !.read_dir = TRUE]} ELSE {})

-----------------------------------------------------------------------------
(* The transcripts the model puts on disk *)

HELLO == <<"h", "i">>

UserLine(text, t, sid) == Entry(Some("user"), Msg(StrVal(text)), t, sid)

\* a text of n characters
Chars(n) == [i \in 1..n |-> "x"]

\* a file that is not UTF-8
NonUtf8 == <<"\\xff">>

\* the lines the model writes in transcripts, by name
LineOf(name) ==
    CASE name = "hello" -> UserLine(HELLO, Stamp(2), Some(SESS1))
      [] name = "warmup_s2" -> UserLine(WARMUP, Stamp(1), Some(SESS2))
      [] name = "warmup" -> UserLine(WARMUP, None, Some(SESS1))
      [] name = "warmup_timed" -> UserLine(WARMUP, Stamp(1), Some(SESS1))
      [] name = "warmup_a" -> UserLine(WARMUP, None, Some(AGENT_A))
      [] name = "warmup_other" -> UserLine(WARMUP, None, Some(SESS2))
      [] name = "warmup_nosid" -> UserLine(WARMUP, None, None)
      [] name = "malformed" -> Malformed
      [] name = "untimed" -> UserLine(HELLO, None, Some(SESS1))
      [] name = "late" -> UserLine(<<"y", "o">>, Stamp(3), Some(SESS1))
      [] name = "bad_stamp" -> UserLine(HELLO, BadStamp, Some(SESS1))
      [] name = "long" -> UserLine(Chars(TitleMax + 1), None, Some(SESS1))
      [] name = "exact" -> UserLine(Chars(TitleMax), None, Some(SESS1))
      [] name = "ide" -> UserLine(IDE_PREFIX \o <<"o">>, None, Some(SESS1))
      [] name = "blank" -> UserLine(<<" ", "\t">>, None, Some(SESS1))
      [] name = "padded" ->
            UserLine(<<" ", "a", "\t", "b", " ", "\n", "c">>, None, Some(SESS1))
      [] name = "label" -> UserLine(WARMUP_LABEL, Stamp(2), Some(SESS1))
      [] name = "assistant" ->
            Entry(Some("assistant"), Msg(StrVal(HELLO)), Stamp(3), Some(SESS1))
      [] name = "untyped" -> Entry(None, Msg(StrVal(HELLO)), Stamp(1), Some(SESS1))
      [] name = "no_message" -> Entry(Some("user"), None, Stamp(1), Some(SESS1))
      [] name = "no_content" ->
            Entry(Some("user"), Some([content |-> None]), None, Some(SESS1))
      [] name = "number" -> Entry(Some("user"), Msg(OtherVal), None, Some(SESS1))
      [] name = "array" ->
            Entry(Some("user"),
                  Msg(ArrVal(<<Segment(Some("image"), Some(HELLO)),
                               Segment(Some("text"), Some(IDE_PREFIX)),
                               Segment(Some("text"), Some(<<"o", "k">>)),
                               Segment(Some("text"), Some(HELLO))>>)),
                  Stamp(1), Some(SESS1))

\* the transcripts the model names: the names of their lines
Shape(kind) ==
    CASE kind = "empty" -> <<>>
      [] kind = "titled" -> <<"hello">>
      [] kind = "warmup_session" -> <<"warmup_s2">>
      [] kind = "agent_warmup" -> <<"warmup">>
      [] kind = "agent_timed" -> <<"warmup_timed">>
      [] kind = "agent_nested" -> <<"warmup_a">>
      [] kind = "agent_other" -> <<"warmup_other">>
      [] kind = "agent_later" -> <<"malformed", "warmup">>
      [] kind = "agent_nosid" -> <<"warmup_nosid">>
      [] kind = "garbled" -> NonUtf8

\* what a file holds, by the line names the variable content gives it
FileOf(shape) ==
    IF shape = NonUtf8 THEN Garbled
    ELSE Text([i \in 1..Len(shape) |-> LineOf(shape[i])])

Files(fsContent) == [f \in DOMAIN fsContent |-> FileOf(fsContent[f])]

-----------------------------------------------------------------------------
(* Bounds *)

\* the transcript files of the projects directory, at most
MaxFiles == 2

\* the terminal heights term.size() reports
TermHeights == {24}

\* the places a transcript can be at, in the order the bound takes them
PathSeq ==
    << <<WS1, SESS1>>, <<WS1, AGENT_A>>, <<WS1, SESS2>>, <<WS2, AGENT_B>> >>

Paths == {PathSeq[i] : i \in 1..(IF MaxFiles < Len(PathSeq) THEN MaxFiles ELSE Len(PathSeq))}

Kinds(f) ==
    IF is_agent_name(f[2]) THEN {"empty", "agent_warmup"}
    ELSE {"empty", "titled", "warmup_session"}

NoArgs ==
    [workspace |-> None, empty_only |-> FALSE, delete_empty |-> FALSE,
     delete_warmup |-> FALSE, list_workspaces |-> FALSE, include_agents |-> FALSE]

\* the command lines
ArgsSet ==
    {[NoArgs EXCEPT !.include_agents = TRUE],
     [NoArgs EXCEPT !.include_agents = TRUE, !.empty_only = TRUE],
     NoArgs,
     [NoArgs EXCEPT !.delete_empty = TRUE],
     [NoArgs EXCEPT !.delete_warmup = TRUE],
     [NoArgs EXCEPT !.delete_empty = TRUE, !.delete_warmup = TRUE],
     [NoArgs EXCEPT !.list_workspaces = TRUE],
     [NoArgs EXCEPT !.delete_empty = TRUE, !.workspace = Some(<<"/", "p">>)]}

-----------------------------------------------------------------------------
(* State *)

Idle ==
    /\ conversations = <<>>
    /\ cursor = 0
    /\ selected = <<>>
    /\ viewport_start = 0
    /\ viewport_size = 0
    /\ indices = <<>>
    /\ pos = 0
    /\ deleted = 0
    /\ errors = 0
    /\ key = ""
    /\ call = None
    /\ calls = <<>>

\* the program is started on a projects directory
Init ==
    /\ files \in SUBSET Paths
    /\ content \in [files -> {Shape(k) : k \in UNION {Kinds(f) : f \in Paths}}]
    /\ \A f \in files : content[f] \in {Shape(k) : k \in Kinds(f)}
    /\ dirs \in SUBSET (files \cap {<<WS1, SESS1>>})
    /\ recent \in SUBSET (files \cap {<<WS1, SESS1>>})
    /\ args \in ArgsSet
    /\ pc = "main"
    /\ base = <<files, dirs>>
    /\ Idle

\* the ascending sequence of a set of numbers
Ascending(S) ==
    CHOOSE q \in [1..Cardinality(S) -> S] : \A i, j \in 1..Cardinality(S) : i < j => q[i] < q[j]

IsEmptyRecord(c) == c.is_empty

IsWarmupRecord(c) == c.title = Some(WARMUP_LABEL)

\* positions (from 0) of the empty records of a list, and of its warmup records
EmptyPositions(list) ==
    Ascending({i \in 0..(Len(list) - 1) : IsEmptyRecord(list[i + 1])})

WarmupPositions(list) ==
    Ascending({i \in 0..(Len(list) - 1) : IsWarmupRecord(list[i + 1])})

NotEmptyRecord(c) == ~c.is_empty

NotWarmupRecord(c) == c.title # Some(WARMUP_LABEL)


Max(a, b) == IF a > b THEN a ELSE b

Min(a, b) == IF a < b THEN a ELSE b

\* usize::saturating_sub
SaturatingSub(a, b) == IF a > b THEN a - b ELSE 0

AllFalse(n) == [i \in 1..n |-> FALSE]

-----------------------------------------------------------------------------
(* One call of delete_conversation_with_agents from a batch loop *)

\* the result of the call on the record at position i (from 0) of the list
Result(i, io) ==
    delete_conversation_with_agents(conversations[i + 1], files, dirs, Files(content), io)

\* the call's effect on the disk, and its record in the history
Cascade(i, io, res) ==
    /\ files' = res.files
    /\ dirs' = res.dirs
    /\ call' = Some([conv |-> conversations[i + 1], io |-> io,
                     files |-> files, dirs |-> dirs, res |-> res])
    /\ calls' = Append(calls, [i |-> i, ok |-> res.ok,
                              quiet |-> io = NoFailure(DOMAIN io.sib)])

\* a batch loop is entered over the positions `todo` of the list
StartBatch(todo) ==
    /\ indices' = todo
    /\ pos' = 0
    /\ deleted' = 0
    /\ errors' = 0
    /\ calls' = <<>>

\* one turn of a loop that counts the records deleted
CountingStep(at) ==
    /\ pc = at
    /\ pos < Len(indices)
    /\ \E io \in IOs(conversations[indices[pos + 1] + 1], files, dirs, Files(content)) :
          LET res == Result(indices[pos + 1], io)
          IN /\ Cascade(indices[pos + 1], io, res)
             /\ deleted' = IF res.ok THEN deleted + 1 ELSE deleted
             /\ errors' = IF res.ok THEN errors ELSE errors + 1
    /\ pos' = pos + 1
    /\ UNCHANGED <<content, recent, args, pc, conversations, cursor, selected,
                   viewport_start, viewport_size, indices, key, base>>

-----------------------------------------------------------------------------
(* run_selection *)

\* run_selection is entered with the list `list`
StartSelection(list) ==
    /\ conversations' = list
    /\ pc' = IF list = <<>> THEN "exit" ELSE "render"
    /\ cursor' = 0
    /\ selected' = AllFalse(Len(list))
    /\ viewport_start' = 0
    /\ viewport_size' = 0
    /\ indices' = <<>>
    /\ pos' = 0
    /\ deleted' = 0
    /\ errors' = 0
    /\ call' = None
    /\ calls' = <<>>
    /\ base' = <<files, dirs>>

\* viewport_size, from the terminal height and the list
ViewportSize(term_height, list) ==
    LET active_count == Cardinality({i \in 1..Len(list) : list[i].is_active})
        header_lines == IF active_count > 0 THEN 8 ELSE 7
        footer_lines == 3
    IN Max(SaturatingSub(term_height, header_lines + footer_lines), 3)

\* a frame whose viewport follows the cursor upwards only
Render_NoScrollDown(term_height) ==
    /\ pc = "render"
    /\ viewport_size' = ViewportSize(term_height, conversations)
    /\ viewport_start' = IF cursor < viewport_start THEN cursor ELSE viewport_start
    /\ pc' = "browse_key"
    /\ key' = ""
    /\ UNCHANGED <<files, dirs, content, recent, args, conversations, cursor, selected,
                   indices, pos, deleted, errors, call, calls, base>>

\* the top of the loop: the viewport follows the cursor and the frame is drawn
Render(term_height) ==
    /\ pc = "render"
    /\ viewport_size' = ViewportSize(term_height, conversations)
    /\ viewport_start' =
          IF cursor < viewport_start THEN cursor
          ELSE IF cursor >= viewport_start + ViewportSize(term_height, conversations)
               THEN cursor - ViewportSize(term_height, conversations) + 1
          ELSE viewport_start
    /\ pc' = "browse_key"
    /\ key' = ""
    /\ UNCHANGED <<files, dirs, content, recent, args, conversations, cursor, selected,
                   indices, pos, deleted, errors, call, calls, base>>

\* a Browsing key that only moves the cursor or changes the selection
Browse(k, newCursor, newSelected) ==
    /\ pc = "browse_key"
    /\ key' = k
    /\ cursor' = newCursor
    /\ selected' = newSelected
    /\ pc' = "render"
    /\ UNCHANGED <<files, dirs, content, recent, args, conversations, viewport_start,
                   viewport_size, indices, pos, deleted, errors, call, calls, base>>

\* ArrowUp or k
KeyUp == Browse("Up", IF cursor > 0 THEN cursor - 1 ELSE cursor, selected)

\* a down key that goes from the last item to the first
KeyDown_Wraps ==
    Browse("Down", IF cursor < Len(conversations) - 1 THEN cursor + 1 ELSE 0, selected)

\* ArrowDown or j
KeyDown ==
    Browse("Down", IF cursor < Len(conversations) - 1 THEN cursor + 1 ELSE cursor, selected)

\* a toggle key that sets the flag
KeySpace_Sets ==
    Browse("Space", IF cursor < Len(conversations) - 1 THEN cursor + 1 ELSE cursor,
           [selected EXCEPT ![cursor + 1] = TRUE])

KeySpace ==
    Browse("Space", IF cursor < Len(conversations) - 1 THEN cursor + 1 ELSE cursor,
           [selected EXCEPT ![cursor + 1] = ~selected[cursor + 1]])

KeyAll == Browse("a", cursor, [i \in 1..Len(selected) |-> TRUE])

KeyNone == Browse("n", cursor, [i \in 1..Len(selected) |-> FALSE])

KeyPageUp == Browse("PageUp", SaturatingSub(cursor, viewport_size), selected)

KeyPageDown ==
    Browse("PageDown", Min(cursor + viewport_size, Len(conversations) - 1), selected)

KeyOther == Browse("other", cursor, selected)

\* the positions (from 0) of the selected items
SelectedIndices == Ascending({i \in 0..(Len(selected) - 1) : selected[i + 1]})

\* an Enter that starts the batch from Browsing, with no confirmation screen
KeyEnter_SkipConfirm ==
    /\ pc = "browse_key"
    /\ key' = "Enter"
    /\ IF SelectedIndices # <<>>
       THEN pc' = "sel_delete" /\ StartBatch(SelectedIndices)
       ELSE pc' = "render" /\ UNCHANGED <<indices, pos, deleted, errors, calls>>
    /\ UNCHANGED <<files, dirs, content, recent, args, conversations, cursor, selected,
                   viewport_start, viewport_size, call, base>>

\* an Enter that opens the confirmation screen whatever is selected
KeyEnter_NoGuard ==
    /\ pc = "browse_key"
    /\ key' = "Enter"
    /\ indices' = SelectedIndices
    /\ pc' = "confirm_key"
    /\ UNCHANGED <<files, dirs, content, recent, args, conversations, cursor, selected,
                   viewport_start, viewport_size, pos, deleted, errors, call, calls, base>>

\* Enter in Browsing: the confirmation screen, if anything is selected
KeyEnter ==
    /\ pc = "browse_key"
    /\ key' = "Enter"
    /\ indices' = IF SelectedIndices # <<>> THEN SelectedIndices ELSE indices
    /\ pc' = IF SelectedIndices # <<>> THEN "confirm_key" ELSE "render"
    /\ UNCHANGED <<files, dirs, content, recent, args, conversations, cursor, selected,
                   viewport_start, viewport_size, pos, deleted, errors, call, calls, base>>

\* Escape or q in Browsing
KeyQuit ==
    /\ pc = "browse_key"
    /\ key' \in {"Escape", "q"}
    /\ pc' = "quit"
    /\ UNCHANGED <<files, dirs, content, recent, args, conversations, cursor, selected,
                   viewport_start, viewport_size, indices, pos, deleted, errors, call,
                   calls, base>>

\* term.read_key() fails
ReadKeyError ==
    /\ pc \in {"browse_key", "confirm_key"}
    /\ key' = "error"
    /\ pc' = "exit"
    /\ UNCHANGED <<files, dirs, content, recent, args, conversations, cursor, selected,
                   viewport_start, viewport_size, indices, pos, deleted, errors, call,
                   calls, base>>

\* Enter on the confirmation screen: the batch starts
ConfirmEnter ==
    /\ pc = "confirm_key"
    /\ key' = "Enter"
    /\ pc' = "sel_delete"
    /\ StartBatch(indices)
    /\ UNCHANGED <<files, dirs, content, recent, args, conversations, cursor, selected,
                   viewport_start, viewport_size, call, base>>

\* an Escape that returns to Browsing with the selection as it was
ConfirmEscape_KeepsSelection ==
    /\ pc = "confirm_key"
    /\ key' = "Escape"
    /\ pc' = "render"
    /\ UNCHANGED <<files, dirs, content, recent, args, conversations, cursor, selected,
                   viewport_start, viewport_size, indices, pos, deleted, errors, call,
                   calls, base>>

\* Escape on the confirmation screen
ConfirmEscape ==
    /\ pc = "confirm_key"
    /\ key' = "Escape"
    /\ selected' = [i \in 1..Len(selected) |-> FALSE]
    /\ pc' = "render"
    /\ UNCHANGED <<files, dirs, content, recent, args, conversations, cursor,
                   viewport_start, viewport_size, indices, pos, deleted, errors, call,
                   calls, base>>

\* any other key on the confirmation screen
ConfirmOther ==
    /\ pc = "confirm_key"
    /\ key' = "other"
    /\ UNCHANGED <<files, dirs, content, recent, args, pc, conversations, cursor, selected,
                   viewport_start, viewport_size, indices, pos, deleted, errors, call,
                   calls, base>>

\* a turn of the loop that gives the batch up at the first error
SelDeleteStep_StopsOnError ==
    /\ pc = "sel_delete"
    /\ pos < Len(indices)
    /\ \E io \in IOs(conversations[indices[pos + 1] + 1], files, dirs, Files(content)) :
          LET res == Result(indices[pos + 1], io)
          IN /\ Cascade(indices[pos + 1], io, res)
             /\ deleted' = IF res.ok THEN deleted + res.n ELSE deleted
             /\ errors' = IF res.ok THEN errors ELSE errors + 1
             /\ pos' = IF res.ok THEN pos + 1 ELSE Len(indices)
    /\ UNCHANGED <<content, recent, args, pc, conversations, cursor, selected,
                   viewport_start, viewport_size, indices, key, base>>

\* one turn of the loop over indices
SelDeleteStep ==
    /\ pc = "sel_delete"
    /\ pos < Len(indices)
    /\ \E io \in IOs(conversations[indices[pos + 1] + 1], files, dirs, Files(content)) :
          LET res == Result(indices[pos + 1], io)
          IN /\ Cascade(indices[pos + 1], io, res)
             /\ deleted' = IF res.ok THEN deleted + res.n ELSE deleted
             /\ errors' = IF res.ok THEN errors ELSE errors + 1
    /\ pos' = pos + 1
    /\ UNCHANGED <<content, recent, args, pc, conversations, cursor, selected,
                   viewport_start, viewport_size, indices, key, base>>

\* the loop is over: the summary is printed
SelDeleteDone ==
    /\ pc = "sel_delete"
    /\ pos = Len(indices)
    /\ pc' = "summary_key"
    /\ UNCHANGED <<files, dirs, content, recent, args, conversations, cursor, selected,
                   viewport_start, viewport_size, indices, pos, deleted, errors, key, call,
                   calls, base>>

\* "Press any key to exit..."
SummaryKey ==
    /\ pc = "summary_key"
    /\ key' = "any"
    /\ pc' = "finished"
    /\ UNCHANGED <<files, dirs, content, recent, args, conversations, cursor, selected,
                   viewport_start, viewport_size, indices, pos, deleted, errors, call,
                   calls, base>>

-----------------------------------------------------------------------------
(* run_interactive *)

\* the three outcomes of a Confirm prompt: yes, no, or interact() fails
Answers == {"yes", "no", "error"}

\* from the warmup question on, with the list `remaining`
AfterEmptyPhase(remaining) ==
    IF WarmupPositions(remaining) # <<>>
    THEN /\ conversations' = remaining
         /\ indices' = WarmupPositions(remaining)
         /\ pc' = "warmup_prompt"
         /\ UNCHANGED <<cursor, selected, viewport_start, viewport_size, pos, deleted,
                        errors, call, calls, base>>
    ELSE StartSelection(remaining)

\* run_interactive is entered with the list `list`
StartInteractive(list) ==
    IF list # <<>> /\ EmptyPositions(list) # <<>>
    THEN /\ conversations' = list
         /\ indices' = EmptyPositions(list)
         /\ pc' = "empty_prompt"
         /\ UNCHANGED <<cursor, selected, viewport_start, viewport_size, pos, deleted,
                        errors, call, calls, base>>
    ELSE AfterEmptyPhase(list)

\* a prompt is answered yes: its loop starts
PromptYes(loop) ==
    /\ pc' = loop
    /\ StartBatch(indices)
    /\ UNCHANGED <<conversations, cursor, selected, viewport_start, viewport_size, call,
                   base>>

\* interact() fails: the program ends with the error
PromptError ==
    /\ pc' = "exit"
    /\ UNCHANGED <<conversations, cursor, selected, viewport_start, viewport_size,
                   indices, pos, deleted, errors, call, calls, base>>

\* "Delete n empty conversations?"
EmptyPrompt(answer) ==
    /\ pc = "empty_prompt"
    /\ key' = answer
    /\ CASE answer = "yes" -> PromptYes("empty_delete")
         [] answer = "no" -> AfterEmptyPhase(conversations)
         [] answer = "error" -> PromptError
    /\ UNCHANGED <<files, dirs, content, recent, args>>

EmptyDeleteStep == CountingStep("empty_delete")

\* the loop over the empty conversations is over
EmptyDeleteDone ==
    /\ pc = "empty_delete"
    /\ pos = Len(indices)
    /\ AfterEmptyPhase(SelectSeq(conversations, NotEmptyRecord))
    /\ UNCHANGED <<files, dirs, content, recent, args, key>>

\* "Delete n warmup agents?"
WarmupPrompt(answer) ==
    /\ pc = "warmup_prompt"
    /\ key' = answer
    /\ CASE answer = "yes" -> PromptYes("warmup_delete")
         [] answer = "no" -> StartSelection(conversations)
         [] answer = "error" -> PromptError
    /\ UNCHANGED <<files, dirs, content, recent, args>>

WarmupDeleteStep == CountingStep("warmup_delete")

\* the loop over the warmup agents is over
WarmupDeleteDone ==
    /\ pc = "warmup_delete"
    /\ pos = Len(indices)
    /\ StartSelection(SelectSeq(conversations, NotWarmupRecord))
    /\ UNCHANGED <<files, dirs, content, recent, args, key>>

-----------------------------------------------------------------------------
(* main *)

\* --list-workspaces
ListWorkspaces ==
    /\ pc = "main"
    /\ args.list_workspaces
    /\ pc' = "exit"
    /\ UNCHANGED <<files, dirs, content, recent, args, conversations, cursor, selected,
                   viewport_start, viewport_size, indices, pos, deleted, errors, key, call,
                   calls, base>>

\* scan_conversations fails on a directory or on a file's metadata
ScanError ==
    /\ pc = "main"
    /\ ~args.list_workspaces
    /\ pc' = "exit"
    /\ UNCHANGED <<files, dirs, content, recent, args, conversations, cursor, selected,
                   viewport_start, viewport_size, indices, pos, deleted, errors, key, call,
                   calls, base>>

\* the filter of --delete-empty / --delete-warmup
BulkCandidate(c) ==
    \/ args.delete_empty /\ c.is_empty
    \/ args.delete_warmup /\ c.title = Some(WARMUP_LABEL)

\* to_delete, as positions (from 0) of the scanned list
BulkPositions(list) ==
    Ascending({i \in 0..(Len(list) - 1) : BulkCandidate(list[i + 1])})

\* --delete-empty / --delete-warmup: the scan and the candidate list
BulkScan ==
    /\ pc = "main"
    /\ ~args.list_workspaces
    /\ args.delete_empty \/ args.delete_warmup
    /\ \E list \in scan_conversations(files, Files(content), dirs, recent,
                                      args.workspace, TRUE) :
          /\ conversations' = list
          /\ indices' = BulkPositions(list)
          /\ pc' = IF BulkPositions(list) = <<>> THEN "exit" ELSE "bulk_confirm"
    /\ UNCHANGED <<files, dirs, content, recent, args, cursor, selected, viewport_start,
                   viewport_size, pos, deleted, errors, key, call, calls, base>>

\* a confirmation that enters the loop whatever the answer is
BulkConfirm_AnyAnswer(answer) ==
    /\ pc = "bulk_confirm"
    /\ key' = answer
    /\ pc' = "bulk_delete"
    /\ StartBatch(indices)
    /\ UNCHANGED <<files, dirs, content, recent, args, conversations, cursor, selected,
                   viewport_start, viewport_size, call, base>>

\* "Delete n conversations?"
BulkConfirm(answer) ==
    /\ pc = "bulk_confirm"
    /\ key' = answer
    /\ IF answer = "yes"
       THEN pc' = "bulk_delete" /\ StartBatch(indices)
       ELSE pc' = "exit" /\ UNCHANGED <<indices, pos, deleted, errors, calls>>
    /\ UNCHANGED <<files, dirs, content, recent, args, conversations, cursor, selected,
                   viewport_start, viewport_size, call, base>>

BulkDeleteStep == CountingStep("bulk_delete")

\* the loop over to_delete is over: the summary
BulkDeleteDone ==
    /\ pc = "bulk_delete"
    /\ pos = Len(indices)
    /\ pc' = "exit"
    /\ UNCHANGED <<files, dirs, content, recent, args, conversations, cursor, selected,
                   viewport_start, viewport_size, indices, pos, deleted, errors, key, call,
                   calls, base>>

\* the interactive mode: the scan, --empty-only, run_interactive
InteractiveScan ==
    /\ pc = "main"
    /\ ~args.list_workspaces
    /\ ~(args.delete_empty \/ args.delete_warmup)
    /\ \E list \in scan_conversations(files, Files(content), dirs, recent,
                                      args.workspace, args.include_agents) :
          StartInteractive(IF args.empty_only THEN SelectSeq(list, IsEmptyRecord) ELSE list)
    /\ UNCHANGED <<files, dirs, content, recent, args, key>>

-----------------------------------------------------------------------------
(* The program *)

Next ==
    \/ ListWorkspaces
    \/ ScanError
    \/ BulkScan
    \/ \E answer \in Answers : BulkConfirm(answer)
    \/ BulkDeleteStep
    \/ BulkDeleteDone
    \/ InteractiveScan
    \/ \E answer \in Answers : EmptyPrompt(answer)
    \/ EmptyDeleteStep
    \/ EmptyDeleteDone
    \/ \E answer \in Answers : WarmupPrompt(answer)
    \/ WarmupDeleteStep
    \/ WarmupDeleteDone
    \/ \E h \in TermHeights : Render(h)
    \/ KeyUp
    \/ KeyDown
    \/ KeySpace
    \/ KeyAll
    \/ KeyNone
    \/ KeyPageUp
    \/ KeyPageDown
    \/ KeyOther
    \/ KeyEnter
    \/ KeyQuit
    \/ ReadKeyError
    \/ ConfirmEnter
    \/ ConfirmEscape
    \/ ConfirmOther
    \/ SelDeleteStep
    \/ SelDeleteDone
    \/ SummaryKey

Spec == Init /\ [][Next]_vars

-----------------------------------------------------------------------------
(* The cascade on its own: the selector on its confirmation screen, over a    *)
(* workspace with several agent files, and the batch that Enter starts        *)

\* the transcript files of the projects directory, at most
MaxCascadeFiles == 3

CascadePaths ==
    {<<WS1, SESS1>>, <<WS1, SESS2>>, <<WS1, AGENT_A>>, <<WS1, AGENT_B>>, <<WS2, AGENT_A>>}

\* one agent file takes every shape of a first line, and is listed after its parent
\* when it references it; the second one references a session or the first agent;
\* the one in the other workspace references the first session
CascadeKinds(f) ==
    IF f = <<WS1, AGENT_A>>
    THEN {"empty", "agent_timed", "agent_other", "agent_later", "agent_nosid", "garbled"}
    ELSE IF f = <<WS1, AGENT_B>> THEN {"agent_warmup", "agent_other", "agent_nested"}
    ELSE IF is_agent_name(f[2]) THEN {"agent_warmup"}
    ELSE {"titled"}

InitCascade ==
    /\ files \in {S \in SUBSET CascadePaths : Cardinality(S) <= MaxCascadeFiles}
    /\ content \in [files -> {Shape(k) : k \in UNION {CascadeKinds(f) : f \in CascadePaths}}]
    /\ \A f \in files : content[f] \in {Shape(k) : k \in CascadeKinds(f)}
    /\ dirs \in SUBSET (files \cap {<<WS1, SESS1>>, <<WS1, AGENT_A>>})
    /\ recent = {}
    /\ args = [NoArgs EXCEPT !.include_agents = TRUE]
    /\ conversations \in
          scan_conversations(files, Files(content), dirs, recent, None, TRUE)
    /\ conversations # <<>>
    /\ selected \in [1..Len(conversations) -> BOOLEAN]
    /\ SelectedIndices # <<>>
    /\ indices = SelectedIndices
    /\ pc = "confirm_key"
    /\ key = "Enter"
    /\ cursor = 0
    /\ viewport_start = 0
    /\ viewport_size = ViewportSize(24, conversations)
    /\ pos = 0
    /\ deleted = 0
    /\ errors = 0
    /\ call = None
    /\ calls = <<>>
    /\ base = <<files, dirs>>

NextCascade ==
    \/ ConfirmEnter
    \/ SelDeleteStep

SpecCascade == InitCascade /\ [][NextCascade]_vars

-----------------------------------------------------------------------------
(* The scan on its own: main over a projects directory whose transcripts differ *)
(* in tier and timestamp, up to the list scan_conversations returns            *)

\* the transcript files of the projects directory, at most
MaxScanFiles == 3

ScanPaths == {<<WS1, SESS1>>, <<WS1, SESS2>>, <<WS1, AGENT_A>>, <<WS2, SESS1>>}

\* empty; titled with timestamp 2, 3 and none; untitled with timestamp 1 and 3;
\* titled with the text of the warmup label
ScanShapes ==
    {<<>>, <<"hello">>, <<"late">>, <<"untimed">>, <<"warmup_s2">>,
     <<"warmup_s2", "assistant">>, <<"label">>}

ScanArgs ==
    {NoArgs,
     [NoArgs EXCEPT !.include_agents = TRUE],
     [NoArgs EXCEPT !.include_agents = TRUE, !.workspace = Some(<<"/", "p">>)],
     [NoArgs EXCEPT !.delete_empty = TRUE, !.delete_warmup = TRUE]}

InitScan ==
    /\ files \in {S \in SUBSET ScanPaths : Cardinality(S) <= MaxScanFiles}
    /\ content \in [files -> ScanShapes]
    /\ dirs = {}
    /\ recent = {}
    /\ args \in ScanArgs
    /\ pc = "main"
    /\ base = <<files, dirs>>
    /\ Idle

NextScan ==
    \/ BulkScan
    \/ InteractiveScan

SpecScan == InitScan /\ [][NextScan]_vars

-----------------------------------------------------------------------------
(* The parser on its own: main scans a projects directory of one transcript,   *)
(* whose lines take every shape                                                *)

\* the lines of the transcript, at most
MaxLines == 2

LineNames ==
    {"hello", "warmup", "warmup_timed", "malformed", "late", "bad_stamp", "long",
     "exact", "ide", "blank", "padded", "assistant", "untyped", "no_message",
     "no_content", "number", "array"}

Transcripts == UNION {[1..n -> LineNames] : n \in 0..MaxLines}

InitParse ==
    /\ files \in {{<<WS1, SESS1>>}, {<<WS1, AGENT_A>>}}
    /\ content \in [files -> Transcripts]
    /\ dirs = {}
    /\ recent = {}
    /\ args \in {[NoArgs EXCEPT !.include_agents = TRUE],
                 [NoArgs EXCEPT !.delete_warmup = TRUE]}
    /\ pc = "main"
    /\ base = <<files, dirs>>
    /\ Idle

SpecParse == InitParse /\ [][NextScan]_vars

-----------------------------------------------------------------------------
(* The list on its own: run_selection over a list longer than the viewport, on *)
(* a terminal whose height changes, with the keys that move and select         *)

\* the records of the list, at most
MaxListLen == 5

\* the places of the transcripts, in the order the bound takes them
SelectorPathSeq ==
    << <<WS1, SESS1>>, <<WS1, SESS2>>, <<WS2, SESS1>>, <<WS2, SESS2>>,
       <<WS1, AGENT_A>>, <<WS2, AGENT_B>> >>

SelectorPaths ==
    {SelectorPathSeq[i] :
        i \in 1..(IF MaxListLen < Len(SelectorPathSeq) THEN MaxListLen
                  ELSE Len(SelectorPathSeq))}

\* the terminal heights term.size() reports: one below the header and footer, one
\* that leaves four lines, or three under the line of the active conversations
SelectorHeights == {5, 14}

\* run_selection has been called with the scanned list
InitSelector ==
    /\ files \in {S \in SUBSET SelectorPaths : Cardinality(S) >= MaxListLen - 1}
    /\ content = [f \in files |-> <<"untimed">>]
    /\ dirs = {}
    /\ recent \in SUBSET (files \cap {<<WS1, SESS1>>})
    /\ args = [NoArgs EXCEPT !.include_agents = TRUE]
    /\ conversations \in scan_conversations(files, Files(content), dirs, recent, None, TRUE)
    /\ pc = "render"
    /\ cursor = 0
    /\ selected = AllFalse(Len(conversations))
    /\ viewport_start = 0
    /\ viewport_size = 0
    /\ indices = <<>>
    /\ pos = 0
    /\ deleted = 0
    /\ errors = 0
    /\ key = ""
    /\ call = None
    /\ calls = <<>>
    /\ base = <<files, dirs>>

NextSelector ==
    \/ \E h \in SelectorHeights : Render(h)
    \/ KeyUp
    \/ KeyDown
    \/ KeySpace
    \/ KeyAll
    \/ KeyNone
    \/ KeyPageUp
    \/ KeyPageDown
    \/ KeyOther
    \/ KeyQuit

SpecSelector == InitSelector /\ [][NextSelector]_vars

-----------------------------------------------------------------------------
(* Properties of the selector and of the bulk modes, under Spec *)

NothingSelected == \A i \in 1..Len(selected) : ~selected[i]

Disk == <<files, dirs>>

\* C1: in run_selection the cascade is called only by the batch that Enter starts on
\* the confirmation screen, which is entered only by Enter in Browsing: as long as
\* the selector is Browsing or ConfirmingDelete, and when it has quit, no cascade has
\* been called and the disk is as run_selection found it; quit ends the program.
C1_CascadeOnlyAfterConfirm ==
    /\ [](pc \in {"render", "browse_key", "confirm_key", "quit"}
             => calls = <<>> /\ call = None /\ Disk = base)
    /\ [][pc' = "sel_delete" /\ pc # "sel_delete" => pc = "confirm_key" /\ key' = "Enter"]_vars
    /\ [][pc' = "confirm_key" /\ pc # "confirm_key" => pc = "browse_key" /\ key' = "Enter"]_vars
    /\ [][pc' = "quit" => pc = "browse_key" /\ key' \in {"Escape", "q"}]_vars
    /\ [][pc # "quit"]_vars

\* the selector has quit with items selected and the cursor moved
C1_Witness ==
    /\ pc = "quit"
    /\ cursor > 0
    /\ \E i \in 1..Len(selected) : selected[i]
    /\ files # {}

\* C2: Enter in Browsing with nothing selected changes nothing (cursor, selection,
\* list, disk) and the selector stays in Browsing; the confirmation screen is entered
\* only from Browsing with at least one item selected.
C2_EnterNeedsSelection ==
    /\ [][pc = "browse_key" /\ key' = "Enter" /\ NothingSelected
             => /\ pc' = "render"
                /\ cursor' = cursor
                /\ selected' = selected
                /\ conversations' = conversations
                /\ Disk' = Disk]_vars
    /\ [][pc' = "confirm_key" /\ pc # "confirm_key"
             => pc = "browse_key" /\ ~NothingSelected]_vars
    /\ [](pc = "confirm_key" => ~NothingSelected)

\* Enter has been pressed in Browsing, the cursor off the first item, nothing selected
C2_Witness ==
    /\ pc = "render"
    /\ key = "Enter"
    /\ NothingSelected
    /\ cursor > 0

\* C3: Escape on the confirmation screen clears every selection flag and returns to
\* Browsing; the list, the cursor and the disk are unchanged and no cascade is called.
C3_CancelClearsSelection ==
    [][pc = "confirm_key" /\ key' = "Escape"
          => /\ pc' = "render"
             /\ Len(selected') = Len(selected)
             /\ \A i \in 1..Len(selected') : ~selected'[i]
             /\ conversations' = conversations
             /\ cursor' = cursor
             /\ Disk' = Disk
             /\ calls' = <<>>
             /\ call' = None]_vars

\* the confirmation screen has been cancelled, the cursor off the first item
C3_Witness ==
    /\ pc = "render"
    /\ key = "Escape"
    /\ cursor > 0
    /\ Len(conversations) > 1

\* C4: the batch calls the cascade once for each selected record, in ascending list
\* order, and for no other record; each failed call adds one to errors and the batch
\* goes on, so that at the summary every selected record has been passed once and the
\* successes and the errors add up to the number of selected records.
C4_BatchCoversSelection ==
    pc \in {"sel_delete", "summary_key", "finished"} =>
        /\ indices = SelectedIndices
        /\ \A k, l \in 1..Len(indices) : k < l => indices[k] < indices[l]
        /\ Len(calls) = pos
        /\ \A k \in 1..pos : calls[k].i = indices[k]
        /\ errors = Cardinality({k \in 1..pos : ~calls[k].ok})
        /\ pc \in {"summary_key", "finished"}
              => /\ pos = Len(indices)
                 /\ Cardinality({k \in 1..pos : calls[k].ok}) + errors
                       = Cardinality({i \in 1..Len(selected) : selected[i]})

\* the batch is over; its first call failed and its second one succeeded
C4_Witness ==
    /\ pc = "finished"
    /\ Len(calls) = 2
    /\ ~calls[1].ok
    /\ calls[2].ok
    /\ errors = 1

\* C10: in the bulk modes nothing is deleted unless the confirmation was answered yes:
\* before the answer, after a no or a failed prompt, and when no candidate matched,
\* no cascade has been called and the disk is as the program found it.
C10_BulkNeedsYes ==
    (args.delete_empty \/ args.delete_warmup) /\ key # "yes"
        => calls = <<>> /\ call = None /\ Disk = base

\* a bulk run has ended on a declined confirmation, with candidates on the list
C10_Witness ==
    /\ args.delete_empty \/ args.delete_warmup
    /\ pc = "exit"
    /\ key = "no"
    /\ indices # <<>>

-----------------------------------------------------------------------------
(* Properties of one call of the cascade, under SpecCascade *)

\* the transcript files the last call removed
Removed == call[1].files \ call[1].res.files

\* f's first line parses as a record whose session identifier is sid
FirstLineNames(f, sid) ==
    /\ FileOf(content[f]).utf8
    /\ Len(FileOf(content[f]).lines) >= 1
    /\ FileOf(content[f]).lines[1].json
    /\ FileOf(content[f]).lines[1].sessionId = Some(sid)

IsAgentSibling(f) ==
    /\ f # call[1].conv.path
    /\ f[1] = call[1].conv.workspace_folder
    /\ is_agent_name(f[2])

\* the agent files of the record's workspace folder that carry its session id on
\* their first line, when the call was made
Referencing ==
    {f \in call[1].files : IsAgentSibling(f) /\ FirstLineNames(f, call[1].conv.session_id)}

\* no filesystem call of the last cascade failed
NoIOFailure ==
    /\ call[1].conv.path \in call[1].files
    /\ call[1].io = NoFailure(DOMAIN call[1].io.sib)

\* C5: with no I/O failure, the call on a non-agent record removes the main file and
\* the N agent files of its workspace folder that carry its session id on their first
\* line, and returns 1 + N; the call on an agent record removes its file only and
\* returns 1, whatever its siblings carry.
C5_CascadeCount ==
    IsSome(call) /\ NoIOFailure =>
        /\ call[1].res.ok
        /\ IF is_agent_name(call[1].conv.session_id)
           THEN call[1].res.n = 1 /\ Removed = {call[1].conv.path}
           ELSE /\ call[1].res.n = 1 + Cardinality(Referencing)
                /\ Removed = {call[1].conv.path} \cup Referencing

\* a non-agent record with two referencing agent files has been deleted
C5_Witness ==
    /\ IsSome(call)
    /\ NoIOFailure
    /\ ~is_agent_name(call[1].conv.session_id)
    /\ Cardinality(Referencing) = 2
    /\ call[1].res.n = 3

\* C6: the call on a non-agent record removes, besides the main file, only agent
\* files of its workspace folder whose first line parses as a record with its session
\* id; when the call returns Ok it removes every such file whose removal did not fail.
\* A different id, no id, an unparseable first line or a match on a later line leave
\* the file on disk, as does a name without the agent prefix.
C6_OnlyFirstLineMatches ==
    IsSome(call) /\ ~is_agent_name(call[1].conv.session_id) =>
        \A f \in call[1].files \ {call[1].conv.path} :
            /\ f \in Removed => IsAgentSibling(f) /\ f \in Referencing
            /\ call[1].res.ok /\ f \in Referencing /\ call[1].io.sib[f] \in {"ok", "rmdir"}
                  => f \in Removed

\* a call removed a referencing agent file and left one that matches on its second
\* line only
C6_Witness ==
    /\ IsSome(call)
    /\ ~is_agent_name(call[1].conv.session_id)
    /\ call[1].res.ok
    /\ \E f \in Removed : f # call[1].conv.path
    /\ \E f \in call[1].res.files :
          /\ IsAgentSibling(f)
          /\ content[f] = Shape("agent_later")
          /\ call[1].io.sib[f] = "ok"

\* C7 as claimed: the call returns an error only when the removal of the main file or
\* of the recorded folder fails.
C7_OnlyTopLevelFailures ==
    IsSome(call) /\ ~call[1].res.ok => call[1].res.failed \in {"file", "folder"}

\* C8: when the removal of the main file fails, because the file is gone or for an
\* outside reason, the call returns an error and the disk is as it was: the folder
\* stays and no sibling is removed.
C8_MainFailureChangesNothing ==
    IsSome(call) /\ (call[1].conv.path \notin call[1].files \/ call[1].io.main) =>
        /\ ~call[1].res.ok
        /\ call[1].res.failed = "file"
        /\ call[1].res.files = call[1].files
        /\ call[1].res.dirs = call[1].dirs

\* the call was made on a record whose file had vanished since the scan, its folder
\* still on disk
C8_Witness ==
    /\ IsSome(call)
    /\ call[1].conv.path \notin call[1].files
    /\ call[1].conv.path \in call[1].dirs
    /\ dirs = call[1].dirs

\* C9: Ok(n) has n = 1 + the number of agent files the call removed.  A referencing
\* agent file whose removal fails stays on disk, uncounted, and the call still returns
\* Ok; a failure to remove a removed agent's folder changes neither n nor the result.
C9_CountsRemovedAgents ==
    IsSome(call) =>
        /\ call[1].res.ok => call[1].res.n = 1 + Cardinality(Removed \ {call[1].conv.path})
        /\ \A f \in DOMAIN call[1].io.sib :
              /\ call[1].io.sib[f] = "remove" => call[1].res.ok /\ f \in call[1].res.files
              /\ call[1].io.sib[f] = "rmdir"
                    => /\ call[1].res.ok
                       /\ f \in Removed
                       /\ call[1].res.n =
                             delete_conversation_with_agents(
                                 call[1].conv, call[1].files, call[1].dirs, Files(content),
                                 [call[1].io EXCEPT !.sib[f] = "ok"]).n

\* one referencing agent could not be removed, another was removed but not its folder
C9_Witness ==
    /\ IsSome(call)
    /\ call[1].res.ok
    /\ call[1].res.n = 2
    /\ \E f, g \in DOMAIN call[1].io.sib :
          call[1].io.sib[f] = "remove" /\ call[1].io.sib[g] = "rmdir"

-----------------------------------------------------------------------------
(* Properties of the scanned list, under SpecScan *)

\* main has called scan_conversations: conversations is the list it returned
ScanDone == pc # "main" /\ ~args.empty_only

\* the include_agents argument main passes
AgentsRequested == args.delete_empty \/ args.delete_warmup \/ args.include_agents

HasRealTitle(c) == ~c.is_empty /\ IsSome(c.title) /\ c.title # Some(NO_TITLE_LABEL)

Tier(c) == IF c.is_empty THEN 2 ELSE IF HasRealTitle(c) THEN 0 ELSE 1

\* C11: in the scanned list every record with a real title precedes every non-empty
\* record without one, which precedes every empty record, whatever the timestamps.
C11_TierOrder ==
    ScanDone =>
        \A i, j \in 1..Len(conversations) :
            Tier(conversations[i]) < Tier(conversations[j]) => i < j

\* the three tiers are on the list, and the untitled record is newer than the titled
C11_Witness ==
    /\ ScanDone
    /\ \E i, j, k \in 1..Len(conversations) :
          /\ Tier(conversations[i]) = 0
          /\ Tier(conversations[j]) = 1
          /\ Tier(conversations[k]) = 2
          /\ IsSome(conversations[i].timestamp)
          /\ IsSome(conversations[j].timestamp)
          /\ conversations[j].timestamp[1] > conversations[i].timestamp[1]

\* C12 as claimed: within a tier a record with a later timestamp precedes one with an
\* earlier timestamp, and a record with a timestamp precedes every record without.
C12_NewestFirstUntimedLast ==
    ScanDone =>
        \A i, j \in 1..Len(conversations) :
            /\ Tier(conversations[i]) = Tier(conversations[j])
            /\ IsSome(conversations[i].timestamp)
            /\ \/ ~IsSome(conversations[j].timestamp)
               \/ /\ IsSome(conversations[j].timestamp)
                  /\ conversations[i].timestamp[1] > conversations[j].timestamp[1]
            => i < j

\* C13 as claimed: the comparator ties no two records of the list, and the list is
\* the same whatever order the directory entries are enumerated in.
C13_OrderDetermined ==
    ScanDone =>
        /\ \A i, j \in 1..Len(conversations) :
              i # j => Compare(conversations[i], conversations[j]) # 0
        /\ \A list \in scan_conversations(files, Files(content), dirs, recent,
                                          args.workspace, AgentsRequested) :
              list = conversations

\* C14: a record is empty iff its file has no byte, and an empty record has neither
\* title nor timestamp, agent files included.
C14_EmptyHasNothing ==
    ScanDone =>
        \A i \in 1..Len(conversations) :
            /\ conversations[i].is_empty <=> content[conversations[i].path] = <<>>
            /\ conversations[i].is_empty
                  => conversations[i].title = None /\ conversations[i].timestamp = None

\* an empty agent file is on the list, next to a warmup agent
C14_Witness ==
    /\ ScanDone
    /\ \E i, j \in 1..Len(conversations) :
          /\ is_agent_name(conversations[i].session_id)
          /\ conversations[i].is_empty
          /\ conversations[i].title = None
          /\ ~conversations[j].is_empty
          /\ IsSome(conversations[j].timestamp)

\* C18 as claimed: a record's title is the warmup label exactly when its file is
\* agent-prefixed, non-empty and warmup-only; a non-agent warmup-only transcript has no title.
C18_WarmupLabel ==
    ScanDone =>
        \A i \in 1..Len(conversations) :
            LET c == conversations[i]
                warmup == is_warmup_only(FileOf(content[c.path]).lines)
            IN /\ c.title = Some(WARMUP_LABEL)
                     <=> is_agent_name(c.session_id) /\ ~c.is_empty /\ warmup
               /\ ~is_agent_name(c.session_id) /\ ~c.is_empty /\ warmup => c.title = None

\* C26 as claimed: every record that --delete-warmup, or the warmup question of the
\* interactive mode, puts on its deletion list is an agent-prefixed transcript that is
\* warmup-only; a non-agent conversation is never on it, whatever its content.
C26_WarmupCandidatesAreAgents ==
    \A k \in 1..Len(indices) :
        LET c == conversations[indices[k] + 1]
        IN \/ pc = "warmup_prompt"
           \/ pc = "bulk_confirm" /\ args.delete_warmup /\ ~(args.delete_empty /\ c.is_empty)
           => /\ is_agent_name(c.session_id)
              /\ is_warmup_only(FileOf(content[c.path]).lines)

\* C19: the scan returns no record for an agent file when agents are not requested,
\* and exactly one record for every transcript file of every included workspace when
\* they are.
C19_AgentInclusion ==
    ScanDone =>
        LET paths == {conversations[i].path : i \in 1..Len(conversations)}
            included == {f \in files : WorkspaceIncluded(f[1], args.workspace)}
        IN /\ Len(conversations) = Cardinality(paths)
           /\ AgentsRequested => paths = included
           /\ ~AgentsRequested => paths = {f \in included : ~is_agent_name(f[2])}

\* agents were not requested: the agent file on disk is not on the list, a session is
C19_Witness ==
    /\ ScanDone
    /\ ~AgentsRequested
    /\ \E f \in files : is_agent_name(f[2]) /\ content[f] # <<>>
    /\ conversations # <<>>

-----------------------------------------------------------------------------
(* Properties of the parser, under SpecParse *)

\* the lines of the transcript at f
LinesAt(f) == FileOf(content[f]).lines

\* the record the scan made of the transcript at f
RecordOf(f) ==
    conversations[CHOOSE i \in 1..Len(conversations) : conversations[i].path = f]

Listed(f) == \E i \in 1..Len(conversations) : conversations[i].path = f

\* the line is a user-tagged record with a text that is not empty, not "Warmup" and
\* does not start with the IDE tag
Qualifies(line) ==
    /\ line.json
    /\ line.type = Some("user")
    /\ IsSome(line.message)
    /\ IsSome(line.message[1].content)
    /\ extract_text_from_content(line.message[1].content[1]) # <<>>
    /\ extract_text_from_content(line.message[1].content[1]) # WARMUP
    /\ ~StartsWith(extract_text_from_content(line.message[1].content[1]), IDE_PREFIX)

RECURSIVE FirstQualifying(_, _)

\* the text of the first qualifying line from line i on, in file order
FirstQualifying(lines, i) ==
    IF i > Len(lines) THEN None
    ELSE IF Qualifies(lines[i])
         THEN Some(extract_text_from_content(lines[i].message[1].content[1]))
         ELSE FirstQualifying(lines, i + 1)

\* a text of at most 50 characters as it is, a longer one cut at 50 with the marker
Shortened(text) ==
    IF Len(text) <= 50 THEN text ELSE SubSeq(text, 1, 50) \o <<".", ".", ".">>

RECURSIVE LastStamped(_, _)

\* the timestamp of the last line up to line i that parses and has a parseable one
LastStamped(lines, i) ==
    IF i = 0 THEN None
    ELSE IF lines[i].json /\ IsSome(lines[i].timestamp) /\ lines[i].timestamp[1].valid
         THEN Some(lines[i].timestamp[1].t)
         ELSE LastStamped(lines, i - 1)

\* C15: for every transcript, is_warmup_only is true iff extract_title is absent.
C15_WarmupIffNoTitle ==
    \A f \in files : is_warmup_only(LinesAt(f)) <=> extract_title(LinesAt(f)) = None

\* a scanned agent transcript of a warmup line and an IDE-tagged line: no title, warmup
C15_Witness ==
    /\ ScanDone
    /\ \E f \in files :
          /\ Listed(f)
          /\ content[f] = <<"warmup", "ide">>
          /\ RecordOf(f).title = Some(WARMUP_LABEL)
          /\ extract_title(LinesAt(f)) = None

\* C16: extract_title is the text of the first qualifying user record in file order,
\* as it is when it has at most 50 characters, otherwise its first 50 characters and
\* the ellipsis marker; it is absent when no record qualifies.  The scan gives that
\* title to a non-agent record.
C16_TitleOfFirstQualifying ==
    \A f \in files :
        /\ extract_title(LinesAt(f)) =
              IF FirstQualifying(LinesAt(f), 1) = None THEN None
              ELSE Some(Shortened(FirstQualifying(LinesAt(f), 1)[1]))
        /\ ScanDone /\ Listed(f) /\ ~is_agent_name(f[2])
              => RecordOf(f).title = extract_title(LinesAt(f))

\* a scanned transcript whose first line does not qualify and whose second one has 51
\* characters: the title has 53
C16_Witness ==
    /\ ScanDone
    /\ \E f \in files :
          /\ Listed(f)
          /\ content[f] = <<"warmup", "long">>
          /\ IsSome(RecordOf(f).title)
          /\ Len(RecordOf(f).title[1]) = 53

\* C17: extract_timestamp is the timestamp of the last line, in file order, that
\* parses as a record and carries a parseable timestamp, absent iff there is none;
\* the scan gives it to the record.
C17_LastTimestamp ==
    \A f \in files :
        /\ extract_timestamp(LinesAt(f)) = LastStamped(LinesAt(f), Len(LinesAt(f)))
        /\ extract_timestamp(LinesAt(f)) = None
              <=> \A i \in 1..Len(LinesAt(f)) :
                     ~(/\ LinesAt(f)[i].json
                       /\ IsSome(LinesAt(f)[i].timestamp)
                       /\ LinesAt(f)[i].timestamp[1].valid)
        /\ ScanDone /\ Listed(f) => RecordOf(f).timestamp = extract_timestamp(LinesAt(f))

\* a scanned transcript stamped 3 and then 2: the record has 2
C17_Witness ==
    /\ ScanDone
    /\ \E f \in files :
          /\ Listed(f)
          /\ content[f] = <<"late", "hello">>
          /\ RecordOf(f).timestamp = Some(2)

\* the line is a user-tagged record whose text is the warmup sentinel
WarmupRecord(line) ==
    /\ line.json
    /\ line.type = Some("user")
    /\ IsSome(line.message)
    /\ IsSome(line.message[1].content)
    /\ extract_text_from_content(line.message[1].content[1]) = WARMUP

\* C27 as claimed: an agent record has the warmup label only if its transcript holds
\* at least one user-tagged record whose text is the warmup sentinel; a non-empty agent
\* transcript with no user-tagged record at all does not get the label.
C27_LabelNeedsWarmupRecord ==
    \A i \in 1..Len(conversations) :
        is_agent_name(conversations[i].session_id)
           /\ conversations[i].title = Some(WARMUP_LABEL)
        => \E k \in 1..Len(LinesAt(conversations[i].path)) :
              WarmupRecord(LinesAt(conversations[i].path)[k])

-----------------------------------------------------------------------------
(* Properties of the list, under SpecSelector *)

\* C20: after any sequence of keys the cursor is an index of the list and the
\* selection vector has the length of the list, which no key changes; up and down
\* move the cursor by one, page up and page down by the viewport size, and each stops
\* at the end of the list it moves towards, with no wraparound.
C20_CursorInBounds ==
    /\ [](/\ 0 <= cursor
          /\ cursor <= Len(conversations) - 1
          /\ Len(selected) = Len(conversations))
    /\ [][conversations' = conversations]_vars
    /\ [][pc = "browse_key" /\ key' = "Up"
             => cursor' = IF cursor = 0 THEN 0 ELSE cursor - 1]_vars
    /\ [][pc = "browse_key" /\ key' = "Down"
             => cursor' = IF cursor = Len(conversations) - 1 THEN cursor ELSE cursor + 1]_vars
    /\ [][pc = "browse_key" /\ key' = "PageUp"
             => cursor' = IF cursor < viewport_size THEN 0 ELSE cursor - viewport_size]_vars
    /\ [][pc = "browse_key" /\ key' = "PageDown"
             => cursor' = IF cursor + viewport_size > Len(conversations) - 1
                          THEN Len(conversations) - 1
                          ELSE cursor + viewport_size]_vars

\* page up has moved the cursor a full viewport of three, from the fifth item to the
\* second
C20_Witness ==
    /\ pc = "render"
    /\ key = "PageUp"
    /\ viewport_size = 3
    /\ cursor = 1
    /\ Len(conversations) >= 5

\* C21: at every frame, after the viewport adjustment, the cursor is inside the
\* viewport, whose size is the terminal height minus the header and footer lines
\* (10, or 11 with an active conversation on the list), at least 3; whatever keys came
\* before and whatever heights the terminal had.
C21_CursorInViewport ==
    pc = "browse_key" =>
        /\ viewport_start <= cursor
        /\ cursor < viewport_start + viewport_size
        /\ viewport_size >= 3
        /\ \E h \in SelectorHeights :
              LET lines == IF \E i \in 1..Len(conversations) : conversations[i].is_active
                           THEN 11 ELSE 10
              IN viewport_size = IF h - lines > 3 THEN h - lines ELSE 3

\* a frame of four lines has scrolled: the cursor is on its last line, and the list
\* has an item above the viewport
C21_Witness ==
    /\ pc = "browse_key"
    /\ viewport_size = 4
    /\ viewport_start > 0
    /\ cursor = viewport_start + viewport_size - 1

\* C22: the toggle key flips the flag of the item under the cursor and no other flag,
\* and then moves the cursor down by one, unless it is on the last item.
C22_ToggleAndAdvance ==
    [][pc = "browse_key" /\ key' = "Space"
          => /\ Len(selected') = Len(selected)
             /\ selected'[cursor + 1] = ~selected[cursor + 1]
             /\ \A i \in 1..Len(selected) : i # cursor + 1 => selected'[i] = selected[i]
             /\ cursor' = IF cursor = Len(conversations) - 1 THEN cursor ELSE cursor + 1]_vars

\* the toggle key was pressed on the last item: the cursor is on it, and it is the
\* only item selected
C22_Witness ==
    /\ pc = "render"
    /\ key = "Space"
    /\ cursor = Len(conversations) - 1
    /\ \A i \in 1..Len(selected) : selected[i] <=> i = Len(selected)

------------------------------------------------------------------------------
(* Properties of a whole batch, under SpecCascade *)

\* the record the batch handles at its k-th step
BatchRecord(k) == conversations[indices[k] + 1]

\* the batch loop has handled every selected record
BatchOver == pc = "sel_delete" /\ pos = Len(indices)

\* the transcript files removed since the batch began
BatchRemoved == base[1] \ files

\* C23 as claimed: when every selected record's file is there as the batch starts and
\* no filesystem call of the batch fails for an outside reason, the batch ends with
\* zero errors, also when a conversation and one of its own agent files are both
\* selected.
C23_NoErrorsWithoutFailure ==
    /\ BatchOver
    /\ \A k \in 1..Len(indices) : BatchRecord(k).path \in base[1]
    /\ \A k \in 1..Len(calls) : calls[k].quiet
    => errors = 0

\* C24 as claimed: at the end of an interactive batch the total of deleted files is
\* the number of transcript files removed from the disk during the batch, also when
\* a call of the batch returned an error.
C24_TotalIsRemovedFiles ==
    BatchOver => deleted = Cardinality(BatchRemoved)

\* C25: every transcript file removed during a batch is the file of a selected record,
\* or an agent-prefixed file in the workspace folder of a selected non-agent record;
\* so no unselected non-agent transcript is ever removed.
C25_OnlySelectedOrTheirAgents ==
    \A f \in BatchRemoved :
        \/ \E k \in 1..Len(indices) : BatchRecord(k).path = f
        \/ /\ is_agent_name(f[2])
           /\ \E k \in 1..Len(indices) :
                 /\ ~is_agent_name(BatchRecord(k).session_id)
                 /\ BatchRecord(k).workspace_folder = f[1]

\* a batch has removed an agent file that was not selected, with the conversation it
\* references, and has left an unselected conversation of the same folder on disk
C25_Witness ==
    /\ BatchOver
    /\ \E f \in BatchRemoved :
          /\ is_agent_name(f[2])
          /\ \A k \in 1..Len(indices) : BatchRecord(k).path # f
    /\ \E f \in files :
          /\ ~is_agent_name(f[2])
          /\ f[1] = BatchRecord(1).workspace_folder
          /\ \A k \in 1..Len(indices) : BatchRecord(k).path # f

====
